---- MODULE Spec2Model ----
(***************************************************************************)
(* Model of the interview-coach automation: the scraper job                *)
(* (scraper.py: update_database) and the answer-filler job                 *)
(* (answer-filler.py: fill_answers), their answer-resolution chains and    *)
(* the spreadsheet store both jobs share.                                  *)
(***************************************************************************)
EXTENDS Integers, Sequences, FiniteSets, TLC

\* ------------------------------------------------------------------ bounds
\* Number of job runs (processes) a behaviour holds.
NRuns == 2
\* Largest number of failed attempts in a row the network shows for one URL.
MaxFails == 3
\* Rows an initial store holds at most: of a single run, of consecutive runs.
MaxInitRows == 2
MaxRunRows == 1

\* ------------------------------------------------------------------- texts
\* A Python value that is None or a str.  A str is abstracted to its word
\* count, whether it carries whitespace around (or instead of) its words, and
\* the marker phrase it contains ("no" for none).
None == [k |-> "none", w |-> 0, pad |-> FALSE, mark |-> "no"]

Str(w, pad, mark) == [k |-> "str", w |-> w, pad |-> pad, mark |-> mark]

EmptyStr == Str(0, FALSE, "no")

\* Python truthiness of None / str: a non-empty string.
Truthy(t) == t.k = "str" /\ (t.w > 0 \/ t.pad)

\* str.strip()
strip(t) == [t EXCEPT !.pad = FALSE]

\* The acceptance policy the spec describes (4.5), stated on a returned
\* text: at least 15 words, neither "sorry" nor "don't know".  No line of
\* src/ computes it.
Accepted(t) ==
    /\ t.k = "str"
    /\ t.w >= 15
    /\ t.mark \notin {"sorry", "dontknow"}

\* ------------------------------------------------------------ question text
\* A question text: its words (stem) and whether it is written with capitals.
QText == [stem : {"what", "how"}, caps : BOOLEAN]

\* str.lower()
lower(q) == [q EXCEPT !.caps = FALSE]

\* hashlib.md5(...).hexdigest(): one digest per distinct string (no collision
\* among the few strings of the model).
md5(s) == <<"md5", s.stem, s.caps>>

get_question_hash_nolower(q) == md5(q)

get_question_hash(q) == md5(lower(q))

\* ----------------------------------------------------------------- network
\* What the network does for one URL during one call: `fails` attempts in a
\* row end with `kind`, the attempts after them succeed.
NetBehaviours ==
    { [kind |-> "timeout", fails |-> 0], [kind |-> "timeout", fails |-> 1],
      [kind |-> "timeout", fails |-> MaxFails], [kind |-> "http404", fails |-> MaxFails] }

Transient(kind) == kind \in {"timeout", "dns", "conn"}

\* The outcome of attempt i (requests.get + raise_for_status).
Attempt(net, i) == IF i <= net.fails THEN net.kind ELSE "ok"

\* A fetcher as the spec describes it (4.1): up to 3 attempts on a transient
\* failure.
RECURSIVE RetryFrom(_, _)
RetryFrom(net, i) ==
    IF Attempt(net, i) = "ok" THEN [ok |-> TRUE, tries |-> i, first |-> Attempt(net, 1)]
    ELSE IF Transient(Attempt(net, i)) /\ i < 3 THEN RetryFrom(net, i + 1)
    ELSE [ok |-> FALSE, tries |-> i, first |-> Attempt(net, 1)]

safe_request_retrying(net) == RetryFrom(net, 1)

\* safe_request (both files): one GET + raise_for_status inside try/except;
\* the response, or None on any exception.
safe_request(net) ==
    [ok |-> Attempt(net, 1) = "ok", tries |-> 1, first |-> Attempt(net, 1)]

\* ------------------------------------------------------------------- pages
\* A DOM node is None (no element matches the selector) or the raw text of
\* the element.  Element.get_text(strip=True) / get_text(sep, strip=True).
get_text(node) == strip(node)

T14 == Str(14, FALSE, "no")
T15 == Str(15, FALSE, "no")
Blank == Str(0, TRUE, "no")

\* An answer page: the div.answer-text element, the div.content element with
\* its p/pre children, the article element.
NoCont == [present |-> FALSE, paras |-> <<>>]
Cont(ps) == [present |-> TRUE, paras |-> ps]
Pg(a, c, r) == [ans |-> a, cont |-> c, art |-> r]

Pages ==
    { Pg(None, NoCont, None),
      Pg(T15, NoCont, None),
      Pg(Blank, Cont(<<Blank, T14>>), None),
      Pg(None, Cont(<<Blank>>), T15),
      Pg(None, Cont(<<>>), Blank),
      Pg(None, NoCont, T15) }

RECURSIVE SumW(_)
SumW(ps) == IF ps = <<>> THEN 0 ELSE get_text(Head(ps)).w + SumW(Tail(ps))

RECURSIVE FirstMark(_)
FirstMark(ps) ==
    IF ps = <<>> THEN "no"
    ELSE IF Head(ps).mark # "no" THEN Head(ps).mark ELSE FirstMark(Tail(ps))

\* "\n\n".join(p.get_text(strip=True) for p in paras): every paragraph, the
\* empty ones too, so the result keeps separators around an empty first or
\* last paragraph.
join_all(ps) ==
    IF ps = <<>> THEN EmptyStr
    ELSE Str(SumW(ps),
             Len(ps) >= 2 /\ (get_text(ps[1]).w = 0 \/ get_text(ps[Len(ps)]).w = 0),
             FirstMark(ps))

\* "\n\n".join(... for p in paras if p.get_text(strip=True)): only the
\* non-empty paragraphs.
join_nonempty(ps) == Str(SumW(ps), FALSE, FirstMark(ps))

\* scraper.py extract_answer, lines 84-98: the three page rules.  `returned`
\* says that a return statement was reached, val is the value returned.
page_rules(page) ==
    IF page.ans # None /\ Truthy(get_text(page.ans))
        THEN [returned |-> TRUE, val |-> get_text(page.ans)]
    ELSE IF page.cont.present /\ page.cont.paras # <<>>
        THEN [returned |-> TRUE, val |-> join_all(page.cont.paras)]
    ELSE IF page.art # None
        THEN [returned |-> TRUE, val |-> get_text(page.art)]
    ELSE [returned |-> FALSE, val |-> None]

\* answer-filler.py scrape_source, lines 55-71, after the page was fetched.
scrape_rules(page) ==
    IF page.ans # None /\ Truthy(get_text(page.ans))
        THEN strip(get_text(page.ans))
    ELSE IF page.cont.present /\ Truthy(join_nonempty(page.cont.paras))
        THEN strip(join_nonempty(page.cont.paras))
    ELSE IF page.art # None /\ Truthy(get_text(page.art))
        THEN strip(get_text(page.art))
    ELSE None

\* A link cell / a scraped href: None or an absolute URL.
NoLink == "none"
Links == {NoLink, "url"}

\* A resolver's result: the value it returns, the network requests it made,
\* whether it caught an exception on the way (caught), and whether an
\* exception left it (exc).
Res(v, n, c, e) == [val |-> v, net |-> n, caught |-> c, exc |-> e]

\* answer-filler.py scrape_source.
scrape_source(link, net, page) ==
    IF link = NoLink THEN Res(None, 0, FALSE, FALSE)
    ELSE IF ~safe_request(net).ok THEN Res(None, safe_request(net).tries, TRUE, FALSE)
    ELSE Res(scrape_rules(page), safe_request(net).tries, FALSE, FALSE)

\* ---------------------------------------------------------- API responses
\* What an API call does: "error" (requests.get or raise_for_status raises),
\* "malformed" (the body is not the expected JSON: no items, empty value
\* list, no choices), or "ok" with the snippet / completion text.
Api(st, t) == [status |-> st, text |-> t]

ApiResps ==
    { Api("error", None), Api("malformed", None),
      Api("ok", EmptyStr), Api("ok", Str(14, TRUE, "no")),
      Api("ok", T15), Api("ok", Str(15, FALSE, "dontknow")) }

\* A missing credential: os.environ.get gives None.
CredNames == {"GOOGLE_API_KEY", "GOOGLE_CX", "BING_API_KEY", "OPENAI_API_KEY"}

\* google_search without its try/except: the exception leaves the function.
google_search_uncaught(creds, resp) ==
    IF "GOOGLE_API_KEY" \notin creds \/ "GOOGLE_CX" \notin creds
        THEN Res(None, 0, FALSE, FALSE)
    ELSE IF resp.status # "ok" THEN Res(None, 1, FALSE, TRUE)
    ELSE Res(strip(resp.text), 1, FALSE, FALSE)

\* answer-filler.py google_search.
google_search(creds, resp) ==
    IF "GOOGLE_API_KEY" \notin creds \/ "GOOGLE_CX" \notin creds
        THEN Res(None, 0, FALSE, FALSE)
    ELSE IF resp.status # "ok" THEN Res(None, 1, TRUE, FALSE)
    ELSE Res(strip(resp.text), 1, FALSE, FALSE)

\* bing_search without the test of its credential.
bing_search_nokeytest(creds, resp) ==
    IF resp.status # "ok" THEN Res(None, 1, TRUE, FALSE)
    ELSE IF ~Truthy(resp.text) THEN Res(None, 1, FALSE, FALSE)
    ELSE Res(strip(resp.text), 1, FALSE, FALSE)

\* answer-filler.py bing_search.
bing_search(creds, resp) ==
    IF "BING_API_KEY" \notin creds THEN Res(None, 0, FALSE, FALSE)
    ELSE IF resp.status # "ok" THEN Res(None, 1, TRUE, FALSE)
    ELSE IF ~Truthy(resp.text) THEN Res(None, 1, FALSE, FALSE)
    ELSE Res(strip(resp.text), 1, FALSE, FALSE)

\* answer-filler.py openai_answer.
openai_answer(creds, resp) ==
    IF "OPENAI_API_KEY" \notin creds THEN Res(EmptyStr, 0, FALSE, FALSE)
    ELSE IF resp.status # "ok" THEN Res(EmptyStr, 1, TRUE, FALSE)
    ELSE Res(strip(resp.text), 1, FALSE, FALSE)

\* --------------------------------------------------------- search results
\* A Google results page: the first element matching each snippet selector,
\* in the order of snippet_selectors.
snippet_selectors == <<"VwiC3b", "IsZvec", "aCOpRe">>

TAd == Str(15, FALSE, "ad")

Serp(a, b, c) == <<a, b, c>>

Serps ==
    { Serp(None, None, None),
      Serp(T15, None, None),
      Serp(TAd, T15, None),
      Serp(Blank, T15, T14),
      Serp(Str(15, FALSE, "sponsored"), None, None) }

\* A marker test that knows only the "Ad " marker.
AdLike_ad_only(t) == t.mark = "ad"

\* Line 124: the text contains "Ad " or "Sponsored".
AdLike(t) == t.mark \in {"ad", "sponsored"}

\* scraper.py search_google, lines 120-128: the loop over the selectors.
RECURSIVE first_snippet(_, _)
first_snippet(serp, i) ==
    IF i > Len(snippet_selectors) THEN EmptyStr
    ELSE IF serp[i] # None /\ Truthy(get_text(serp[i])) /\ ~AdLike(get_text(serp[i]))
        THEN get_text(serp[i])
    ELSE first_snippet(serp, i + 1)

\* scraper.py search_google.
search_google(net, serp) ==
    IF ~safe_request(net).ok THEN Res(EmptyStr, safe_request(net).tries, TRUE, FALSE)
    ELSE Res(first_snippet(serp, 1), safe_request(net).tries, FALSE, FALSE)

\* A chain that goes on to the next resolver whatever the value.
returns_never(ans) == FALSE

\* A chain that returns only what passes the acceptance policy.
returns_accepted_only(ans) == Truthy(ans) /\ Accepted(ans)

\* answer-filler.py extract_answer, `if ans:` after each resolver: the chain
\* returns a resolver's value when it is a non-empty string.
returns(ans) == Truthy(ans)

\* fill_answers writing whatever the chain returned.
no_answer_never(answer) == FALSE

\* answer-filler.py fill_answers, line 178: `if not answer:`.
no_answer(answer) == ~Truthy(answer)

\* ------------------------------------------------------------ source pages
\* A scraped (question text, link) item, as extract_questions returns it.
Item(stem, caps, link) == [text |-> [stem |-> stem, caps |-> caps], link |-> link]

\* A heading element of a source page: its text, the href of its first <a>
\* (NoLink without one), and whether the text holds a '?' and at least 10
\* characters.
Elem(stem, caps, link, isq) ==
    [text |-> [stem |-> stem, caps |-> caps], link |-> link, isq |-> isq]

\* The three entries of `sources`.
NSources == 3

\* What each source page holds: the elements its selector matches (sel) and
\* its <li> elements (li).  The same question occurs with and without a link,
\* and in a different letter case; the third page matches no heading.
SourcePage(i) ==
    CASE i = 1 -> [sel |-> <<Elem("what", TRUE, "url", TRUE), Elem("how", TRUE, NoLink, FALSE)>>,
                   li |-> <<>>]
      [] i = 2 -> [sel |-> <<Elem("what", FALSE, NoLink, TRUE), Elem("how", TRUE, NoLink, TRUE)>>,
                   li |-> <<Elem("how", FALSE, "url", TRUE)>>]
      [] OTHER -> [sel |-> <<>>,
                   li |-> <<Elem("what", TRUE, "url", TRUE), Elem("how", TRUE, NoLink, FALSE)>>]

\* The elements of a list that read as questions.
Questions(els) == {j \in DOMAIN els : els[j].isq}

\* scraper.py extract_questions: the selected elements that read as
\* questions, each with its link; when there is none, the <li> elements that
\* do, without a link.
extract_questions(page) ==
    IF Questions(page.sel) # {}
        THEN { [text |-> page.sel[i].text, link |-> page.sel[i].link] : i \in Questions(page.sel) }
    ELSE { [text |-> page.li[i].text, link |-> NoLink] : i \in Questions(page.li) }

\* ------------------------------------------------------------------- state
\* sheet: the rows of InterviewCoach_DB.sheet1 below the header row;
\* cols:  the names in its header row;
\* proc:  the local state of each job run (a process);
\* prev:  what the run that ended last leaves to compare the next run with.
VARIABLES sheet, cols, proc, prev

vars == <<sheet, cols, proc, prev>>

Runs == 1 .. NRuns

Row(q, a, link) == [q |-> q, a |-> a, link |-> link]

NoCur == [text |-> [stem |-> "none", caps |-> FALSE], link |-> NoLink]
NoFetch == [ok |-> FALSE, tries |-> 0, first |-> "none"]

\* The locals of a run.  Of update_database: hashes (existing_hashes), src
\* (the index into sources), qs (all_qs), pend (what the for loop over the
\* set has not yet yielded), added, ret (the value returned).  Of
\* fill_answers: creds, recs (records), idx.  Of either extract_answer: cur
\* (link, question text), ans.  The other fields record what happened:
\* loaded / nloaded (the index and the row count at load), appended (the
\* digests of the rows appended), srcok / appok (no source fetch / no row
\* write failed so far), failed (the digests / the rows whose write raised),
\* written (the rows update_cell wrote), calls, rets,
\* nets, caught (the resolvers invoked for cur, what each returned, the
\* network requests made, the resolvers that caught an exception), fetch (the
\* last safe_request of the source loop), resolved and empties (the
\* questions for which extract_answer was called, and returned nothing),
\* serp (the results page search_google got for cur, <<>> before),
\* exit (the exit status of the process, -1 while it runs).
Idle ==
    [ kind |-> "none", pc |-> "idle", ret |-> "none", exit |-> -1, creds |-> {},
      hashes |-> {}, loaded |-> {}, nloaded |-> 0, src |-> 1, qs |-> {}, pend |-> {},
      added |-> 0, appended |-> <<>>, srcok |-> TRUE, appok |-> TRUE, failed |-> {},
      recs |-> <<>>, idx |-> 1, written |-> {},
      cur |-> NoCur, ans |-> None, calls |-> <<>>, rets |-> <<>>, nets |-> <<>>,
      caught |-> {}, fetch |-> NoFetch, serp |-> <<>>, resolved |-> {}, empties |-> {} ]

Range(sq) == {sq[i] : i \in DOMAIN sq}

Summary(p, ret) ==
    [kind |-> p.kind, ret |-> ret, srcok |-> p.srcok, appok |-> p.appok,
     empties |-> p.empties, appended |-> Range(p.appended), failed |-> p.failed]

NoPrev == Summary(Idle, "none")

\* The `if __name__ == "__main__":` block of either file: scraper.py exits
\* with 0 once update_database returned, whatever it returned, and with 1 on
\* an exception; answer-filler.py ends with 0 when fill_answers returned and
\* with 1, the interpreter's status for an uncaught exception, otherwise.
sys_exit(pc, ret) == IF pc = "crashed" THEN 1 ELSE 0

\* What stays of a run that ended: its kind, how it ended, its return value
\* and the exit status of its process.
Over(p, pc, ret) ==
    [Idle EXCEPT !.kind = p.kind, !.pc = pc, !.ret = ret, !.exit = sys_exit(pc, ret)]

\* The header rows a store may have: the full header with or without the
\* optional link column, and a header without the answer column.
FullHeaders == {{"id", "question", "answer"}, {"id", "question", "answer", "link"}}

Headers == FullHeaders \cup {{"id", "question"}}

\* The rows a store starts with, up to MaxInitRows of them: an unanswered
\* question (with its link, when the header has the column) or, when the
\* header has the answer column, an answered one.
InitRows(cs) ==
    { Row([stem |-> "what", caps |-> FALSE], EmptyStr,
          IF "link" \in cs THEN "url" ELSE NoLink) }
        \cup IF "answer" \in cs
                THEN {Row([stem |-> "what", caps |-> FALSE], T15, NoLink)}
             ELSE {}

RECURSIVE SeqsUpTo(_, _)
SeqsUpTo(S, n) ==
    IF n = 0 THEN {<<>>}
    ELSE SeqsUpTo(S, n - 1)
            \cup {Append(sq, x) : sq \in {t \in SeqsUpTo(S, n - 1) : Len(t) = n - 1}, x \in S}

InitStore(hs, n) ==
    /\ cols \in hs
    /\ sheet \in SeqsUpTo(InitRows(cols), n)
    /\ prev = NoPrev

\* One run of either job.
Init == InitStore(Headers, MaxInitRows) /\ proc = [r \in {1} |-> Idle]

\* NRuns runs, one after the other, on a store with a full header.
InitRuns == InitStore(FullHeaders, MaxRunRows) /\ proc = [r \in Runs |-> Idle]

Ended(p) == p.pc \in {"done", "crashed"}

\* Runs are scheduled one after the other (spec 5: serialized scheduling).
Turn(r) == \A s \in 1 .. (r - 1) : Ended(proc[s])

\* ------------------------------------------------- scraper.py update_database
\* An index that is never filled from the store.
existing_hashes_none(rows, cs) == {}

\* An index of digests taken without lowercasing the stored text.
existing_hashes_nolower(rows, cs) ==
    IF rows = <<>> \/ "question" \notin cs THEN {}
    ELSE {get_question_hash_nolower(rows[i].q) : i \in DOMAIN rows}

\* Lines 145-148: the digests of the question column of the loaded records.
existing_hashes(rows, cs) ==
    IF rows = <<>> \/ "question" \notin cs THEN {}
    ELSE {get_question_hash(rows[i].q) : i \in DOMAIN rows}

\* A handler that reports the failed access as a success.
access_failed_true(p) == Over(p, "done", "true")

\* Lines 149-151: the except clause of the store access: `return False`.
access_failed(p) == Over(p, "done", "false")

\* Lines 141-151: authorise, open the sheet, load the records; any exception
\* ends the run with False.
UOpen(r) ==
    /\ proc[r].pc = "idle"
    /\ \/ /\ proc' = [proc EXCEPT ![r] = access_failed([@ EXCEPT !.kind = "update"])]
          /\ prev' = Summary([Idle EXCEPT !.kind = "update"], proc'[r].ret)
       \/ /\ proc' = [proc EXCEPT ![r] = [@ EXCEPT !.kind = "update", !.pc = "fetch",
                                                   !.hashes = existing_hashes(sheet, cols),
                                                   !.loaded = existing_hashes(sheet, cols),
                                                   !.nloaded = Len(sheet)]]
          /\ prev' = prev
    /\ UNCHANGED <<sheet, cols>>

\* Lines 169-177: one iteration of the loop over the sources.
UFetch(r) ==
    /\ proc[r].pc = "fetch"
    /\ \E net \in NetBehaviours :
        LET p == proc[r]
            f == safe_request(net)
            qs == IF f.ok THEN p.qs \cup extract_questions(SourcePage(p.src)) ELSE p.qs
        IN proc' = [proc EXCEPT ![r] =
                [@ EXCEPT !.fetch = f, !.src = p.src + 1,
                          !.srcok = p.srcok /\ f.ok,
                          !.qs = IF p.src = NSources THEN {} ELSE qs,
                          !.pc = IF p.src = NSources THEN "loop" ELSE "fetch",
                          !.pend = IF p.src = NSources THEN qs ELSE {}]]
    /\ UNCHANGED <<sheet, cols, prev>>

\* Lines 181-185: the next (text, link) pair of the set, its digest test, and
\* the call of extract_answer (line 81: the test of the link).
UPick(r) ==
    /\ proc[r].pc = "loop"
    /\ \E it \in proc[r].pend :
        LET p == proc[r]
            h == get_question_hash(it.text)
        IN IF h \in p.hashes
            THEN proc' = [proc EXCEPT ![r] =
                    [@ EXCEPT !.pend = p.pend \ {it}, !.fetch = NoFetch]]
            ELSE proc' = [proc EXCEPT ![r] =
                    [@ EXCEPT !.pend = p.pend \ {it}, !.cur = it, !.fetch = NoFetch,
                              !.resolved = p.resolved \cup {h},
                              !.pc = IF it.link # NoLink THEN "page" ELSE "search"]]
    /\ UNCHANGED <<sheet, cols, prev>>

RECURSIVE Rep(_, _)
Rep(x, n) == IF n = 0 THEN <<>> ELSE <<x>> \o Rep(x, n - 1)

\* scraper.py extract_answer, lines 82-98: fetch the linked page and apply
\* the page rules.
UPage(r) ==
    /\ proc[r].pc = "page"
    /\ \E net \in NetBehaviours, page \in Pages :
        LET p == proc[r]
            f == safe_request(net)
            pr == IF f.ok THEN page_rules(page) ELSE [returned |-> FALSE, val |-> None]
        IN proc' = [proc EXCEPT ![r] =
                [@ EXCEPT !.calls = Append(p.calls, "page"),
                          !.rets = Append(p.rets, pr.val),
                          !.nets = p.nets \o Rep("page", f.tries),
                          !.caught = IF f.ok THEN p.caught ELSE p.caught \cup {"page"},
                          !.ans = pr.val,
                          !.pc = IF pr.returned THEN "append" ELSE "search"]]
    /\ UNCHANGED <<sheet, cols, prev>>

\* scraper.py extract_answer, line 100: the Google fallback.
USearch(r) ==
    /\ proc[r].pc = "search"
    /\ \E net \in NetBehaviours, serp \in Serps :
        LET p == proc[r]
            g == search_google(net, serp)
        IN proc' = [proc EXCEPT ![r] =
                [@ EXCEPT !.calls = Append(p.calls, "search_google"),
                          !.rets = Append(p.rets, g.val),
                          !.nets = p.nets \o Rep("search_google", g.net),
                          !.caught = IF g.caught THEN p.caught \cup {"search_google"}
                                     ELSE p.caught,
                          !.ans = g.val,
                          !.serp = IF safe_request(net).ok THEN serp ELSE <<>>,
                          !.pc = "append"]]
    /\ UNCHANGED <<sheet, cols, prev>>

\* An index that takes the digest before the row is known to be stored.
index_after_failure_add(hashes, h) == hashes \cup {h}

\* Lines 201-202: the except clause of append_row only logs: line 198 was not
\* reached and existing_hashes is as it was.
index_after_failure(hashes, h) == hashes

\* Lines 186-202: append_row succeeds (the digest joins the index) or raises
\* (logged, nothing else changes); the locals of the iteration go.
UAppend(r) ==
    /\ proc[r].pc = "append"
    /\ LET p == proc[r]
           h == get_question_hash(p.cur.text)
           next == [p EXCEPT !.pc = "loop", !.cur = NoCur, !.ans = None, !.calls = <<>>,
                             !.rets = <<>>, !.nets = <<>>, !.caught = {}, !.serp = <<>>,
                             !.empties = IF Truthy(strip(p.ans)) THEN p.empties
                                         ELSE p.empties \cup {h}]
       IN \/ /\ sheet' = Append(sheet, Row(p.cur.text, p.ans, NoLink))
             /\ proc' = [proc EXCEPT ![r] =
                    [next EXCEPT !.hashes = p.hashes \cup {h}, !.added = p.added + 1,
                                 !.appended = Append(p.appended, h)]]
          \/ /\ sheet' = sheet
             /\ proc' = [proc EXCEPT ![r] =
                    [next EXCEPT !.appok = FALSE, !.failed = p.failed \cup {h},
                                 !.hashes = index_after_failure(p.hashes, h)]]
    /\ UNCHANGED <<cols, prev>>

\* Lines 204-205: the loop is over.
UDone(r) ==
    /\ proc[r].pc = "loop"
    /\ proc[r].pend = {}
    /\ proc' = [proc EXCEPT ![r] = Over(@, "done", "true")]
    /\ prev' = Summary(proc[r], "true")
    /\ UNCHANGED <<sheet, cols>>

\* ------------------------------------------------ answer-filler.py fill_answers
\* The credential sets a run may find in its environment (lines 26-29).
CredSets ==
    { {}, CredNames, {"GOOGLE_API_KEY"}, {"GOOGLE_API_KEY", "GOOGLE_CX"},
      {"BING_API_KEY"}, {"OPENAI_API_KEY"} }

\* Lines 164-165: headers.index(name) raises ValueError when the header row
\* does not hold the name.
index_raises(headers, name) == name \notin headers

\* Lines 155-168: the authorisation and the opening of the sheet, the header
\* lookup (an exception of any of them leaves fill_answers, which catches
\* nothing) and the snapshot of the records.
FOpen(r) ==
    /\ proc[r].pc = "idle"
    /\ \/ /\ proc' = [proc EXCEPT ![r] =
                    Over([@ EXCEPT !.kind = "fill"], "crashed", "open_error")]
          /\ prev' = Summary([Idle EXCEPT !.kind = "fill"], "open_error")
       \/ IF index_raises(cols, "question") \/ index_raises(cols, "answer")
            THEN /\ proc' = [proc EXCEPT ![r] =
                        Over([@ EXCEPT !.kind = "fill"], "crashed", "header_error")]
                 /\ prev' = Summary([Idle EXCEPT !.kind = "fill"], "header_error")
            ELSE /\ \E cr \in CredSets :
                        proc' = [proc EXCEPT ![r] =
                            [@ EXCEPT !.kind = "fill", !.pc = "rows", !.creds = cr,
                                      !.recs = sheet, !.idx = 1]]
                 /\ prev' = prev
    /\ UNCHANGED <<sheet, cols>>

\* A loop that takes every row for unanswered.
already_answered_never(row) == FALSE

\* Line 170: `if row.get("answer","").strip():` the row is already answered.
already_answered(row) == Truthy(strip(row.a))

\* Lines 169-177: the next record; an answered row is skipped, for any other
\* extract_answer is called with the row's link (None without a link column).
FRow(r) ==
    /\ proc[r].pc = "rows"
    /\ proc[r].idx <= Len(proc[r].recs)
    /\ LET p == proc[r]
           row == p.recs[p.idx]
       IN IF already_answered(row)
            THEN proc' = [proc EXCEPT ![r] = [@ EXCEPT !.idx = p.idx + 1]]
            ELSE proc' = [proc EXCEPT ![r] =
                    [@ EXCEPT !.cur = [text |-> row.q,
                                       link |-> IF "link" \in cols THEN row.link ELSE NoLink],
                              !.resolved = p.resolved \cup {p.idx},
                              !.pc = "scrape"]]
    /\ UNCHANGED <<sheet, cols, prev>>

\* One resolver call of answer-filler.py extract_answer and the `if ans:`
\* after it: the chain returns the value, goes on to the resolver at `next`
\* (after the last one it returns ""), or an exception leaves the resolver
\* and, nothing catching it, extract_answer and fill_answers.
Step(r, name, res, next) ==
    LET p == proc[r]
        q == [p EXCEPT !.calls = Append(p.calls, name),
                       !.rets = Append(p.rets, res.val),
                       !.nets = p.nets \o Rep(name, res.net),
                       !.caught = IF res.caught THEN p.caught \cup {name} ELSE p.caught]
    IN IF res.exc
        THEN /\ proc' = [proc EXCEPT ![r] = Over(p, "crashed", "chain_error")]
             /\ prev' = Summary(p, "chain_error")
        ELSE /\ proc' = [proc EXCEPT ![r] =
                    [q EXCEPT !.ans = IF returns(res.val) THEN res.val
                                      ELSE IF next = "write" THEN EmptyStr ELSE None,
                              !.pc = IF returns(res.val) THEN "write" ELSE next]]
             /\ prev' = prev

\* A chain that asks the language model right after the page scrape.
after_llm_first(name) ==
    CASE name = "scrape_source" -> "openai"
      [] name = "openai_answer" -> "google"
      [] name = "google_search" -> "bing"
      [] OTHER -> "write"

\* answer-filler.py extract_answer, lines 126-151: what follows a resolver
\* that returned nothing: Google, then Bing, then OpenAI, then `return ""`.
after(name) ==
    CASE name = "scrape_source" -> "google"
      [] name = "google_search" -> "bing"
      [] name = "bing_search" -> "openai"
      [] OTHER -> "write"

\* Lines 127-130.
FScrape(r) ==
    /\ proc[r].pc = "scrape"
    /\ \E net \in NetBehaviours, page \in Pages :
        Step(r, "scrape_source", scrape_source(proc[r].cur.link, net, page),
             after("scrape_source"))
    /\ UNCHANGED <<sheet, cols>>

\* Lines 133-136.
FGoogle(r) ==
    /\ proc[r].pc = "google"
    /\ \E resp \in ApiResps :
        Step(r, "google_search", google_search(proc[r].creds, resp), after("google_search"))
    /\ UNCHANGED <<sheet, cols>>

\* Lines 139-142.
FBing(r) ==
    /\ proc[r].pc = "bing"
    /\ \E resp \in ApiResps :
        Step(r, "bing_search", bing_search(proc[r].creds, resp), after("bing_search"))
    /\ UNCHANGED <<sheet, cols>>

\* Lines 145-151.
FOpenai(r) ==
    /\ proc[r].pc = "openai"
    /\ \E resp \in ApiResps :
        Step(r, "openai_answer", openai_answer(proc[r].creds, resp), after("openai_answer"))
    /\ UNCHANGED <<sheet, cols>>

\* Lines 178-187: no answer, the row is left alone; otherwise update_cell
\* writes the answer cell or raises (logged, nothing else changes); the
\* locals of the iteration go.
FWrite(r) ==
    /\ proc[r].pc = "write"
    /\ LET p == proc[r]
           next == [p EXCEPT !.idx = p.idx + 1, !.pc = "rows", !.cur = NoCur, !.ans = None,
                             !.calls = <<>>, !.rets = <<>>, !.nets = <<>>, !.caught = {},
                             !.empties = IF Truthy(strip(p.ans)) THEN p.empties
                                         ELSE p.empties \cup {p.idx}]
       IN IF no_answer(p.ans)
            THEN /\ proc' = [proc EXCEPT ![r] = next]
                 /\ sheet' = sheet
            ELSE \/ /\ sheet' = [sheet EXCEPT ![p.idx].a = p.ans]
                    /\ proc' = [proc EXCEPT ![r] =
                            [next EXCEPT !.written = p.written \cup {p.idx}]]
                 \/ /\ sheet' = sheet
                    /\ proc' = [proc EXCEPT ![r] =
                            [next EXCEPT !.appok = FALSE, !.failed = p.failed \cup {p.idx}]]
    /\ UNCHANGED <<cols, prev>>

\* Line 169: the records are exhausted, fill_answers returns.
FDone(r) ==
    /\ proc[r].pc = "rows"
    /\ proc[r].idx > Len(proc[r].recs)
    /\ proc' = [proc EXCEPT ![r] = Over(@, "done", "none")]
    /\ prev' = Summary(proc[r], "none")
    /\ UNCHANGED <<sheet, cols>>

\* ------------------------------------------------------------ specification
Next ==
    \/ \E r \in DOMAIN proc : Turn(r) /\ UOpen(r)
    \/ \E r \in DOMAIN proc : Turn(r) /\ UFetch(r)
    \/ \E r \in DOMAIN proc : Turn(r) /\ UPick(r)
    \/ \E r \in DOMAIN proc : Turn(r) /\ UPage(r)
    \/ \E r \in DOMAIN proc : Turn(r) /\ USearch(r)
    \/ \E r \in DOMAIN proc : Turn(r) /\ UAppend(r)
    \/ \E r \in DOMAIN proc : Turn(r) /\ UDone(r)
    \/ \E r \in DOMAIN proc : Turn(r) /\ FOpen(r)
    \/ \E r \in DOMAIN proc : Turn(r) /\ FRow(r)
    \/ \E r \in DOMAIN proc : Turn(r) /\ FScrape(r)
    \/ \E r \in DOMAIN proc : Turn(r) /\ FGoogle(r)
    \/ \E r \in DOMAIN proc : Turn(r) /\ FBing(r)
    \/ \E r \in DOMAIN proc : Turn(r) /\ FOpenai(r)
    \/ \E r \in DOMAIN proc : Turn(r) /\ FWrite(r)
    \/ \E r \in DOMAIN proc : Turn(r) /\ FDone(r)

\* One run of either job on any of the initial stores.
Spec == Init /\ [][Next]_vars

\* The periodic job: the same job run again after its previous run ended.
Again(r, job) == IF r = 1 THEN TRUE ELSE proc[r - 1].kind = job

NextRuns ==
    \/ \E r \in DOMAIN proc : Turn(r) /\ Again(r, "update") /\ UOpen(r)
    \/ \E r \in DOMAIN proc : Turn(r) /\ UFetch(r)
    \/ \E r \in DOMAIN proc : Turn(r) /\ UPick(r)
    \/ \E r \in DOMAIN proc : Turn(r) /\ UPage(r)
    \/ \E r \in DOMAIN proc : Turn(r) /\ USearch(r)
    \/ \E r \in DOMAIN proc : Turn(r) /\ UAppend(r)
    \/ \E r \in DOMAIN proc : Turn(r) /\ UDone(r)
    \/ \E r \in DOMAIN proc : Turn(r) /\ Again(r, "fill") /\ FOpen(r)
    \/ \E r \in DOMAIN proc : Turn(r) /\ FRow(r)
    \/ \E r \in DOMAIN proc : Turn(r) /\ FScrape(r)
    \/ \E r \in DOMAIN proc : Turn(r) /\ FGoogle(r)
    \/ \E r \in DOMAIN proc : Turn(r) /\ FBing(r)
    \/ \E r \in DOMAIN proc : Turn(r) /\ FOpenai(r)
    \/ \E r \in DOMAIN proc : Turn(r) /\ FWrite(r)
    \/ \E r \in DOMAIN proc : Turn(r) /\ FDone(r)

\* NRuns consecutive runs of one job.
SpecRuns == InitRuns /\ [][NextRuns]_vars

\* ----------------------------------------------------------------- claims
\* extract_answer has returned: its caller holds the answer.
Returned(p) == p.pc \in {"append", "write"}

\* The loop of the job is exhausted: the run is about to end.
AtEnd(p) ==
    \/ p.kind = "update" /\ p.pc = "loop" /\ p.pend = {}
    \/ p.kind = "fill" /\ p.pc = "rows" /\ p.idx > Len(p.recs)

\* The digest of a question: the MD5 of its lowercased text.
Digest(q) == md5(lower(q))

Count(sq, x) == Cardinality({i \in DOMAIN sq : sq[i] = x})

\* Every resolver invoked so far for the current question returned nothing
\* (None, "" or only whitespace).
AllEmpty(p) == p.calls # <<>> /\ \A i \in DOMAIN p.rets : ~Truthy(strip(p.rets[i]))

\* C1: in one resolution, a resolver that returns an accepted candidate is the
\* last resolver invoked: no resolver is called after it (so an accepted page
\* scrape leaves the search and language-model resolvers uncalled).
C1_ShortCircuit ==
    \A r \in DOMAIN proc :
        \A i \in DOMAIN proc[r].rets :
            Accepted(proc[r].rets[i]) =>
                /\ i = Len(proc[r].calls)
                /\ Returned(proc[r])
                /\ proc[r].ans = proc[r].rets[i]

C1_Witness ==
    \E r \in DOMAIN proc :
        /\ proc[r].pc = "write"
        /\ proc[r].cur.link # NoLink
        /\ proc[r].calls = <<"scrape_source">>
        /\ Accepted(proc[r].ans)

\* C2 as claimed: a non-empty text that fails the acceptance policy is never
\* what extract_answer returns.
C2_FallThroughOnRejection ==
    \A r \in DOMAIN proc :
        \A i \in DOMAIN proc[r].rets :
            (Returned(proc[r]) /\ Truthy(proc[r].rets[i]) /\ ~Accepted(proc[r].rets[i]))
                => proc[r].ans # proc[r].rets[i]

\* C2 amended: a resolver's non-empty text is returned by extract_answer as it
\* is, accepted or not; the chain goes on to the next resolver only after an
\* empty result.
C2_ReturnsFirstNonEmpty ==
    \A r \in DOMAIN proc :
        \A i \in DOMAIN proc[r].rets :
            /\ i < Len(proc[r].rets) => ~Truthy(proc[r].rets[i])
            /\ Truthy(proc[r].rets[i]) =>
                    Returned(proc[r]) /\ proc[r].ans = proc[r].rets[i]

C2_Witness ==
    \E r \in DOMAIN proc :
        /\ Returned(proc[r])
        /\ Truthy(proc[r].ans)
        /\ proc[r].ans.w < 15
        /\ proc[r].ans = proc[r].rets[Len(proc[r].rets)]

\* The rows a running update_database has appended / a running fill_answers
\* has written.
NewRows(p) ==
    IF p.kind = "update" /\ ~Ended(p) /\ p.pc # "idle"
        THEN (p.nloaded + 1) .. Len(sheet)
    ELSE IF p.kind = "fill" THEN p.written
    ELSE {}

\* C3 as claimed: every answer written to the store satisfies the acceptance
\* policy (at least 15 words, no "sorry", no "don't know").
C3_StoredAnswersAccepted ==
    \A r \in DOMAIN proc : \A i \in NewRows(proc[r]) : Accepted(sheet[i].a)

\* C3 amended: no acceptance policy is applied; every answer fill_answers
\* writes is a non-empty, trimmed string, and every answer update_database
\* appends is a string, the empty one included.
C3_StoredAnswers ==
    \A r \in DOMAIN proc :
        \A i \in NewRows(proc[r]) :
            /\ sheet[i].a.k = "str"
            /\ proc[r].kind = "fill" => Truthy(sheet[i].a) /\ ~sheet[i].a.pad

C3_Witness ==
    \E r \in DOMAIN proc :
        /\ proc[r].kind = "fill"
        /\ \E i \in proc[r].written : Truthy(sheet[i].a) /\ ~Accepted(sheet[i].a)

\* C4 as claimed: a fetch that failed with a transient failure is reported as
\* failed only after 3 attempts.
C4_RetriesTransient ==
    \A r \in DOMAIN proc :
        (Transient(proc[r].fetch.first) /\ ~proc[r].fetch.ok)
            => proc[r].fetch.tries = 3

\* C4 amended: safe_request makes exactly one attempt per call and never
\* retries: it returns the response when that attempt succeeds and reports
\* failure after that one attempt, whatever the kind of failure.
C4_SingleAttempt ==
    \A r \in DOMAIN proc :
        /\ proc[r].fetch # NoFetch =>
            /\ proc[r].fetch.tries = 1
            /\ proc[r].fetch.ok <=> proc[r].fetch.first = "ok"
        /\ \A n \in {"page", "search_google", "scrape_source"} :
                Count(proc[r].nets, n) <= 1

C4_Witness ==
    \E r \in DOMAIN proc :
        /\ proc[r].fetch.first = "timeout"
        /\ ~proc[r].fetch.ok
        /\ proc[r].fetch.tries = 1

\* The credential a resolver of answer-filler.py needs.
KeyOf(name) ==
    CASE name = "google_search" -> "GOOGLE_API_KEY"
      [] name = "bing_search" -> "BING_API_KEY"
      [] name = "openai_answer" -> "OPENAI_API_KEY"
      [] OTHER -> "none"

\* C5: a resolver whose credential is absent returns an empty result without
\* a network call and without raising; with every credential absent and no
\* usable link extract_answer returns "".
C5_MissingCredentialSkips ==
    \A r \in DOMAIN proc :
        /\ proc[r].ret # "chain_error"
        /\ \A i \in DOMAIN proc[r].calls :
            (KeyOf(proc[r].calls[i]) # "none" /\ KeyOf(proc[r].calls[i]) \notin proc[r].creds)
                => /\ ~Truthy(proc[r].rets[i])
                   /\ Count(proc[r].nets, proc[r].calls[i]) = 0
        /\ (proc[r].pc = "write" /\ proc[r].creds = {} /\ ~Truthy(proc[r].rets[1]))
                => /\ proc[r].ans = EmptyStr
                   /\ Len(proc[r].calls) = 4

C5_Witness ==
    \E r \in DOMAIN proc :
        /\ proc[r].pc = "write"
        /\ proc[r].creds = {}
        /\ proc[r].cur.link = NoLink
        /\ proc[r].calls = <<"scrape_source", "google_search", "bing_search", "openai_answer">>
        /\ proc[r].nets = <<>>
        /\ proc[r].ans = EmptyStr

\* C6: no failure inside a resolver or a fetch leaves the chain: no run ends
\* with an exception out of extract_answer, and what extract_answer returns
\* is a string, an answer text or the empty one.
C6_NoFailurePropagates ==
    /\ prev.ret # "chain_error"
    /\ \A r \in DOMAIN proc :
        /\ proc[r].ret # "chain_error"
        /\ Len(proc[r].calls) <= 4
        /\ Returned(proc[r]) => proc[r].ans.k = "str"

C6_Witness ==
    \E r \in DOMAIN proc :
        /\ proc[r].pc = "write"
        /\ proc[r].caught = {"scrape_source", "google_search", "bing_search", "openai_answer"}
        /\ proc[r].ans = EmptyStr

\* C7: when every resolver returned empty, the chain returns empty,
\* fill_answers makes no update_cell call for the row, and update_database
\* writes no row or a row with a blank answer cell.
C7_TotalExhaustion ==
    [][\A r \in DOMAIN proc :
        (Returned(proc[r]) /\ AllEmpty(proc[r])) =>
            /\ ~Truthy(strip(proc[r].ans))
            /\ proc'[r].written = proc[r].written
            /\ \/ sheet' = sheet
               \/ /\ proc[r].kind = "update"
                  /\ Len(sheet') = Len(sheet) + 1
                  /\ SubSeq(sheet', 1, Len(sheet)) = sheet
                  /\ ~Truthy(strip(sheet'[Len(sheet')].a))]_vars

C7_Witness ==
    \E r \in DOMAIN proc :
        /\ proc[r].kind = "fill"
        /\ proc[r].pc = "rows"
        /\ proc[r].empties # {}
        /\ proc[r].written = {}

\* C8 as claimed: a question for which all resolvers failed in one run is
\* resolved again by the next run of the same job.
C8_RetriedNextRun ==
    \A r \in DOMAIN proc :
        (AtEnd(proc[r]) /\ proc[r].srcok /\ prev.kind = proc[r].kind)
            => prev.empties \subseteq proc[r].resolved

\* C8 amended: the next fill_answers run resolves again every row the
\* previous one left without an answer; the next update_database run resolves
\* such a question again only when its append_row failed: a question whose
\* row was appended, blank answer or not, is skipped by the next run.
C8_RetriedUnlessAppended ==
    \A r \in DOMAIN proc :
        /\ (AtEnd(proc[r]) /\ proc[r].kind = "fill" /\ prev.kind = "fill")
                => prev.empties \subseteq proc[r].resolved
        /\ (proc[r].kind = "update" /\ prev.kind = "update")
                => proc[r].resolved \cap prev.appended = {}
        /\ (AtEnd(proc[r]) /\ proc[r].kind = "update" /\ proc[r].srcok
                /\ prev.kind = "update")
                => (prev.empties \ prev.appended) \subseteq proc[r].resolved

C8_Witness ==
    \E r \in DOMAIN proc :
        /\ AtEnd(proc[r])
        /\ proc[r].kind = "update"
        /\ proc[r].srcok
        /\ prev.kind = "update"
        /\ prev.empties \cap prev.appended # {}
        /\ prev.empties \ prev.appended # {}

C10_NoDuplicateDigest ==
    \A r \in DOMAIN proc :
        proc[r].kind = "update" =>
            \A i \in NewRows(proc[r]) :
                \A k \in DOMAIN sheet :
                    k # i => Digest(sheet[k].q) # Digest(sheet[i].q)

C10_Witness ==
    \E r \in DOMAIN proc :
        /\ AtEnd(proc[r])
        /\ proc[r].kind = "update"
        /\ ~proc[r].appok
        /\ Len(proc[r].appended) = 2
        /\ \E i \in NewRows(proc[r]) : sheet[i].q.caps = FALSE

\* C11: fill_answers resolves and writes only rows whose answer cell was
\* blank when the records were read: a step of a fill_answers run that
\* changes the store changes the answer cell of one such row and nothing
\* else, the chain was invoked for that row, and the row was not written
\* before in the run.
C11_NeverOverwrites ==
    [][\A r \in DOMAIN proc :
        proc'[r].kind = "fill" =>
            /\ \A i \in proc'[r].resolved \cup proc'[r].written :
                    ~Truthy(strip(proc'[r].recs[i].a))
            /\ sheet' # sheet =>
                \E i \in DOMAIN sheet :
                    /\ sheet' = [sheet EXCEPT ![i].a = sheet'[i].a]
                    /\ ~Truthy(strip(proc[r].recs[i].a))
                    /\ i = proc[r].idx
                    /\ i \in proc[r].resolved
                    /\ i \notin proc[r].written
                    /\ i \in proc'[r].written]_vars

C11_Witness ==
    \E r \in DOMAIN proc :
        /\ proc[r].kind = "fill"
        /\ AtEnd(proc[r])
        /\ Len(proc[r].recs) = 2
        /\ Truthy(proc[r].recs[1].a)
        /\ sheet[1] = proc[r].recs[1]
        /\ proc[r].resolved = {2}
        /\ proc[r].written = {2}

\* C12 as claimed: a fill_answers run on a store whose header row has no
\* answer column does not fail on the header lookup, and every question of
\* the store is resolved as an unanswered one.
C12_ToleratesMissingAnswerColumn ==
    \A r \in DOMAIN proc :
        (proc[r].kind = "fill" /\ "answer" \notin cols) =>
            /\ proc[r].ret # "header_error"
            /\ AtEnd(proc[r]) => proc[r].resolved = DOMAIN sheet

\* C13: an update_database run ends with False only as its first step, the
\* failed access to the store, with no page fetched, no resolver invoked and
\* the store unchanged; a run that got past the access ends with True, and
\* no exception leaves update_database.
C13_FalseOnlyOnStoreFailure ==
    [][\A r \in DOMAIN proc :
        proc'[r].kind = "update" =>
            /\ proc'[r].pc # "crashed"
            /\ (proc[r].pc = "idle" /\ Ended(proc'[r])) =>
                    proc'[r].ret = "false" /\ sheet' = sheet
            /\ (proc'[r].ret = "false" /\ proc[r].ret # "false") =>
                    /\ proc[r].pc = "idle"
                    /\ proc[r].fetch = NoFetch
                    /\ proc[r].resolved = {}
            /\ (proc[r].pc # "idle" /\ ~Ended(proc[r]) /\ Ended(proc'[r])) =>
                    proc'[r].ret = "true"]_vars

C13_Witness ==
    \E r \in DOMAIN proc :
        /\ proc[r].kind = "update"
        /\ proc[r].pc = "done"
        /\ proc[r].ret = "false"
        /\ prev.ret = "false"
        /\ Len(sheet) = 2

\* C14 as claimed: the scraper process exits with status 0 if and only if
\* update_database completed without a store-access failure, that is,
\* returned True.
C14_ExitReflectsStoreFailure ==
    \A r \in DOMAIN proc :
        (proc[r].kind = "update" /\ Ended(proc[r])) =>
            (proc[r].exit = 0 <=> proc[r].ret = "true")

\* The digests of the questions the source pages hold.
ScrapedDigests ==
    {Digest(it.text) : it \in UNION {extract_questions(SourcePage(i)) : i \in 1 .. NSources}}

\* C15 as claimed: a question whose row write failed in one run is processed
\* again by the next run of the same job (which loaded the store and fetched
\* every source page).
C15_FailedWriteRetriedNextRun ==
    \A r \in DOMAIN proc :
        (AtEnd(proc[r]) /\ proc[r].srcok /\ prev.kind = proc[r].kind)
            => prev.failed \subseteq proc[r].resolved

\* C15 amended: a failed row write does not end the run and every other
\* question of the batch is still processed; the failed write leaves the
\* index and the store as they were; the next run of the same job processes
\* the question again unless a later iteration of the failing run stored it
\* (update_database: the same question scraped with another link or in
\* another letter case).
C15_FailedWriteIsSkipped ==
    /\ prev.failed # {} => prev.ret \in {"true", "none"}
    /\ \A r \in DOMAIN proc :
        LET p == proc[r] IN
        /\ p.failed # {} => ~Ended(p)
        /\ p.kind = "update" =>
            /\ \A h \in p.failed \ Range(p.appended) :
                    /\ h \notin p.hashes \ p.loaded
                    /\ \A i \in NewRows(p) : Digest(sheet[i].q) # h
            /\ (AtEnd(p) /\ p.srcok) => ScrapedDigests \subseteq p.hashes \cup p.failed
            /\ (AtEnd(p) /\ p.srcok /\ prev.kind = "update")
                    => (prev.failed \ prev.appended) \subseteq p.resolved
        /\ p.kind = "fill" =>
            /\ \A i \in p.failed : sheet[i] = p.recs[i] /\ i \notin p.written
            /\ AtEnd(p) => p.resolved = {i \in DOMAIN p.recs : ~already_answered(p.recs[i])}
            /\ (AtEnd(p) /\ prev.kind = "fill") => prev.failed \subseteq p.resolved

C15_Witness ==
    \E r \in DOMAIN proc :
        /\ AtEnd(proc[r])
        /\ proc[r].kind = "update"
        /\ proc[r].srcok
        /\ prev.kind = "update"
        /\ prev.failed \ prev.appended # {}
        /\ prev.appended # {}
        /\ (prev.failed \ prev.appended) \subseteq proc[r].resolved

IsPrefix(sq, tq) == Len(sq) <= Len(tq) /\ SubSeq(tq, 1, Len(sq)) = sq

\* The priority order of each chain: of answer-filler.py, and of scraper.py
\* for a question with and without a link.
ChainOrder(p) ==
    IF p.kind = "fill"
        THEN <<"scrape_source", "google_search", "bing_search", "openai_answer">>
    ELSE IF p.cur.link # NoLink THEN <<"page", "search_google">>
    ELSE <<"search_google">>

\* C16: the resolvers called for a question are an initial part of the
\* chain's fixed order (page scrape, search, search API, language model);
\* every resolver called before the last one produced no accepted candidate;
\* the language model is called only after the three others; without a link
\* no page is fetched.
C16_PriorityOrder ==
    \A r \in DOMAIN proc :
        LET p == proc[r] IN
        /\ IsPrefix(p.calls, ChainOrder(p))
        /\ \A i \in DOMAIN p.calls : i < Len(p.calls) => ~Accepted(p.rets[i])
        /\ \A i \in DOMAIN p.calls : p.calls[i] = "openai_answer" => i = 4
        /\ p.cur.link = NoLink =>
                Count(p.nets, "page") = 0 /\ Count(p.nets, "scrape_source") = 0

C16_Witness ==
    \E r \in DOMAIN proc :
        /\ proc[r].pc = "write"
        /\ proc[r].cur.link = NoLink
        /\ proc[r].calls = <<"scrape_source", "google_search", "bing_search", "openai_answer">>
        /\ proc[r].nets = <<"google_search", "bing_search", "openai_answer">>
        /\ Accepted(proc[r].ans)

\* C17 as claimed: a page extraction that yields no text does not end the
\* resolution: extract_answer never returns right after a page scrape whose
\* result is empty after trimming, it goes on to the next resolver.
C17_PageFallsThroughOnEmpty ==
    \A r \in DOMAIN proc :
        \A i \in DOMAIN proc[r].calls :
            (proc[r].calls[i] \in {"page", "scrape_source"}
                /\ ~Truthy(strip(proc[r].rets[i])))
                => ~(Returned(proc[r]) /\ Len(proc[r].calls) = i)

\* A snippet node search_google may return: it has text and neither marker.
Usable(node) == node.k = "str" /\ node.w > 0 /\ node.mark \notin {"ad", "sponsored"}

\* C18: search_google makes exactly one fetch; when the fetch failed or no
\* selector's node is usable it returns the empty string; otherwise it
\* returns the trimmed text of the usable node of the lowest selector
\* position; what it returns never holds an exclusion marker.
C18_FirstUsableSnippet ==
    \A r \in DOMAIN proc :
        LET p == proc[r] IN
        (p.pc = "append" /\ p.calls[Len(p.calls)] = "search_google") =>
            /\ Count(p.nets, "search_google") = 1
            /\ p.ans.mark \notin {"ad", "sponsored"}
            /\ IF \E i \in DOMAIN p.serp : Usable(p.serp[i])
                THEN \E i \in DOMAIN p.serp :
                        /\ Usable(p.serp[i])
                        /\ \A j \in 1 .. (i - 1) : ~Usable(p.serp[j])
                        /\ p.ans = Str(p.serp[i].w, FALSE, p.serp[i].mark)
                ELSE p.ans = EmptyStr

C18_Witness ==
    \E r \in DOMAIN proc :
        /\ proc[r].pc = "append"
        /\ proc[r].calls[Len(proc[r].calls)] = "search_google"
        /\ proc[r].serp = Serp(TAd, T15, None)
        /\ proc[r].ans = T15

\* C19: while update_database runs, existing_hashes holds the digests of the
\* rows the store had at load and of the rows appended since, and nothing
\* else; no step takes a digest out of it, and a step that adds one is a
\* step that appended the row of that question.
C19_IndexTracksStore ==
    [][\A r \in DOMAIN proc :
        (proc'[r].kind = "update" /\ proc'[r].pc \notin {"idle", "done", "crashed"}) =>
            /\ proc'[r].hashes = {Digest(sheet'[i].q) : i \in DOMAIN sheet'}
            /\ {Digest(sheet'[i].q) : i \in 1 .. proc'[r].nloaded} \subseteq proc'[r].hashes
            /\ proc[r].pc # "idle" =>
                /\ proc[r].hashes \subseteq proc'[r].hashes
                /\ proc'[r].hashes # proc[r].hashes =>
                    /\ sheet' = Append(sheet, sheet'[Len(sheet')])
                    /\ proc'[r].hashes
                            = proc[r].hashes \cup {Digest(sheet'[Len(sheet')].q)}]_vars

C19_Witness ==
    \E r \in DOMAIN proc :
        /\ proc[r].kind = "update"
        /\ AtEnd(proc[r])
        /\ proc[r].nloaded = 0
        /\ Len(proc[r].appended) = 1
        /\ proc[r].failed \ Range(proc[r].appended) # {}
        /\ proc[r].hashes = {Digest(sheet[1].q)}

\* ------------------------------------------------------ concurrent scrapers
\* Two update_database processes started against the same, empty store with
\* nothing that serialises them.
Pair == {1, 2}

InitConc == InitStore({{"id", "question", "answer"}}, 0) /\ proc = [r \in Pair |-> Idle]

\* A process touches the store when it loads the records (UOpen) and when it
\* appends a row (UAppend); its other steps are local.  Processes are
\* switched where the next step of the one left is such an access or follows
\* one: before it starts, between two iterations of its loop, after its end.
\* The process of lower number is the one that loads the store first.
Sched(r) ==
    /\ \A s \in DOMAIN proc \ {r} : proc[s].pc \in {"idle", "loop", "done", "crashed"}
    /\ \A s \in DOMAIN proc : s < r => proc[s].pc # "idle"

\* The runs explored are those in which every source page is fetched and no
\* append_row raises.
NextConc ==
    \/ \E r \in DOMAIN proc : Sched(r) /\ UOpen(r)
    \/ \E r \in DOMAIN proc : Sched(r) /\ UFetch(r) /\ proc'[r].srcok
    \/ \E r \in DOMAIN proc : Sched(r) /\ UPick(r)
    \/ \E r \in DOMAIN proc : Sched(r) /\ UPage(r)
    \/ \E r \in DOMAIN proc : Sched(r) /\ USearch(r)
    \/ \E r \in DOMAIN proc : Sched(r) /\ UAppend(r) /\ proc'[r].appok
    \/ \E r \in DOMAIN proc : Sched(r) /\ UDone(r)

SpecConc == InitConc /\ [][NextConc]_vars

\* The rows of the store that hold the question of digest h.
RowsOf(h) == {i \in DOMAIN sheet : Digest(sheet[i].q) = h}

\* C20: with two update_database processes interleaved, each process still
\* appends a question at most once and never one it loaded, so the store
\* holds at most one row of a question per process; nothing keeps it to one
\* row: the state in which both processes have appended the same question is
\* reachable (C20_Witness).
C20_OneRowPerProcess ==
    /\ \A h \in ScrapedDigests : Cardinality(RowsOf(h)) <= Cardinality(Pair)
    /\ \A r \in DOMAIN proc :
        LET p == proc[r] IN
        /\ Range(p.appended) \cap p.loaded = {}
        /\ \A i, j \in DOMAIN p.appended : i # j => p.appended[i] # p.appended[j]

C20_Witness ==
    \E h \in ScrapedDigests :
        /\ Cardinality(RowsOf(h)) = 2
        /\ \A r \in Pair :
            /\ proc[r].kind = "update"
            /\ ~Ended(proc[r])
            /\ h \notin proc[r].loaded
            /\ h \in Range(proc[r].appended)

====
